---- MODULE Spec2Model ----
(***************************************************************************)
(* A model of calculator.py: the read loop Calculator.run_calc with the   *)
(* variable store, and the expression pipeline check_expr -> to_array ->  *)
(* to_postfix -> Calculator.calculate_postfix.                            *)
(*                                                                         *)
(* A Python str is a sequence of one-character strings, so <<"1","2">> is  *)
(* the str '12' and <<"*","*">> is the token '**'.  A value on the         *)
(* evaluator's stack is a record [k, s, n, d]: k = "str" with text s, or   *)
(* k = "int" / "float" with the exact value n / d (d > 0, lowest terms).   *)
(* A Python float is modelled where it is exact: n / d with d a power of   *)
(* two.  An operation whose result is no such number (1 / 3, 2 ** 0.5), or *)
(* is larger than MaxMagnitude, has the outcome "OutOfModel", and the      *)
(* actions do not take that step.                                          *)
(***************************************************************************)
EXTENDS Integers, Sequences, FiniteSets, TLC

VARIABLES
    run,        \* Calculator.run
    variables,  \* Calculator.variables: a function from the names it holds to their texts
    inp,        \* the line run_calc read last
    out,        \* what that line printed
    exc,        \* the exception that left the running function, "none" if none
    pc,         \* pipeline: the function about to run
    expr,       \* pipeline: the expression string
    arr,        \* pipeline: to_array's result
    todo,       \* pipeline: the tokens the running loop has not consumed yet
    stack,      \* to_postfix: its operator stack (top is the last element)
    postfix,    \* to_postfix: its output list
    vstack,     \* calculate_postfix: its value stack (top is the last element)
    result      \* calculate_postfix: its return value

vars == <<run, variables, inp, out, exc, pc, expr, arr, todo, stack, postfix, vstack, result>>

sessionVars == <<run, variables, inp, out>>

pipeVars == <<pc, expr, arr, todo, stack, postfix, vstack, result>>

(***************************************************************************)
(* Bounds of the model.                                                    *)
(***************************************************************************)
MaxMagnitude == 30000

MaxOps == 2

MaxDepth == 1

MaxRun == 6

MaxSigns == 1

(***************************************************************************)
(* str methods.                                                            *)
(***************************************************************************)
Digits == {"0", "1", "2", "3", "4", "5", "6", "7", "8", "9"}

Letters == {"a", "b", "c", "d", "e", "f", "g", "h", "i", "j", "k", "l", "m",
            "n", "o", "p", "q", "r", "s", "t", "u", "v", "w", "x", "y", "z"}

isdigit(s) == Len(s) > 0 /\ \A i \in 1..Len(s) : s[i] \in Digits

isalpha(s) == Len(s) > 0 /\ \A i \in 1..Len(s) : s[i] \in Letters

RECURSIVE lstrip(_, _)
lstrip(s, c) == IF s # <<>> /\ Head(s) = c THEN lstrip(Tail(s), c) ELSE s

RECURSIVE count(_, _)
count(s, c) == IF s = <<>> THEN 0 ELSE (IF Head(s) = c THEN 1 ELSE 0) + count(Tail(s), c)

RECURSIVE replace(_, _, _)
replace(s, c, by) ==
    IF s = <<>> THEN <<>>
    ELSE (IF Head(s) = c THEN by ELSE <<Head(s)>>) \o replace(Tail(s), c, by)

\* str.split(): the maximal runs of non-blank characters
RECURSIVE split(_, _, _)
split(s, word, acc) ==
    IF s = <<>> THEN (IF word = <<>> THEN acc ELSE Append(acc, word))
    ELSE IF Head(s) = " " THEN split(Tail(s), <<>>, IF word = <<>> THEN acc ELSE Append(acc, word))
    ELSE split(Tail(s), Append(word, Head(s)), acc)

DigitVal(c) ==
    CASE c = "0" -> 0 [] c = "1" -> 1 [] c = "2" -> 2 [] c = "3" -> 3 [] c = "4" -> 4
      [] c = "5" -> 5 [] c = "6" -> 6 [] c = "7" -> 7 [] c = "8" -> 8 [] c = "9" -> 9

DigitChar(n) ==
    CASE n = 0 -> "0" [] n = 1 -> "1" [] n = 2 -> "2" [] n = 3 -> "3" [] n = 4 -> "4"
      [] n = 5 -> "5" [] n = 6 -> "6" [] n = 7 -> "7" [] n = 8 -> "8" [] n = 9 -> "9"

\* the value of a run of decimal digits
RECURSIVE Decimal(_, _)
Decimal(s, acc) == IF s = <<>> THEN acc ELSE Decimal(Tail(s), 10 * acc + DigitVal(Head(s)))

\* str(n) of a Python int
RECURSIVE NatStr(_)
NatStr(n) == IF n < 10 THEN <<DigitChar(n)>> ELSE Append(NatStr(n \div 10), DigitChar(n % 10))

IntStr(n) == IF n < 0 THEN <<"-">> \o NatStr(0 - n) ELSE NatStr(n)

(***************************************************************************)
(* check_expr: TRUE when it raises ExpressionError.                       *)
(***************************************************************************)
MulChars == {"*", "/", "^"}

check_expr(e) ==
    \/ count(e, "(") # count(e, ")")
    \/ \E i \in 1..(Len(e) - 1) : e[i] \in MulChars /\ e[i + 1] \in MulChars

(***************************************************************************)
(* to_array.                                                               *)
(***************************************************************************)
\* expr[i].isalpha() or expr[i].lstrip('-').isdigit(), of one character
IsOperandChar(c) == isalpha(<<c>>) \/ isdigit(lstrip(<<c>>, "-"))

\* the characters the pattern [+|-]+ matches
SignChars == {"+", "|", "-"}

\* line 124-127: the last index of the operand run that starts at i
RECURSIVE OperandRunEnd(_, _)
OperandRunEnd(e, i) ==
    IF i < Len(e) /\ IsOperandChar(e[i + 1]) THEN OperandRunEnd(e, i + 1) ELSE i

\* line 134: the last index of the match of [+|-]+ that starts at i
RECURSIVE SignRunEnd(_, _)
SignRunEnd(e, i) ==
    IF i < Len(e) /\ e[i + 1] \in SignChars THEN SignRunEnd(e, i + 1) ELSE i

FoldSigns(operator) == IF count(operator, "-") % 2 = 1 THEN <<"-">> ELSE <<"+">>

RECURSIVE to_array_from(_, _, _)
to_array_from(e, i, a) ==
    IF i > Len(e) THEN a
    ELSE IF IsOperandChar(e[i]) THEN
        LET j == OperandRunEnd(e, i)
        IN  to_array_from(e, j + 1, Append(a, SubSeq(e, i, j)))
    ELSE IF e[i] \in {"(", ")", "*", "/"} THEN to_array_from(e, i + 1, Append(a, <<e[i]>>))
    ELSE IF e[i] = "^" THEN to_array_from(e, i + 1, Append(a, <<"*", "*">>))
    ELSE IF e[i] \in SignChars THEN
        LET j == SignRunEnd(e, i)
        IN  to_array_from(e, j + 1, Append(a, FoldSigns(SubSeq(e, i, j))))
    ELSE to_array_from(e, i + 1, a)

to_array(e) == to_array_from(e, 1, <<>>)

(***************************************************************************)
(* to_postfix.  A loop state is [stack, postfix, exc].                     *)
(***************************************************************************)
PrecKeys == {<<"(">>, <<")">>, <<"^">>, <<"*">>, <<"/">>, <<"+">>, <<"-">>}

precedence(el) ==
    CASE el \in {<<"(">>, <<")">>} -> 4
      [] el = <<"^">> -> 3
      [] el \in {<<"*">>, <<"/">>} -> 2
      [] el \in {<<"+">>, <<"-">>} -> 1

Top(s) == s[Len(s)]

Pop(s) == SubSeq(s, 1, Len(s) - 1)

\* line 71-73: while stack[-1] != '(': postfix.append(stack.pop()); then stack.pop()
RECURSIVE CloseParen(_, _)
CloseParen(st, pf) ==
    IF st = <<>> THEN [stack |-> st, postfix |-> pf, exc |-> "IndexError"]
    ELSE IF Top(st) # <<"(">> THEN CloseParen(Pop(st), Append(pf, Top(st)))
    ELSE [stack |-> Pop(st), postfix |-> pf, exc |-> "none"]

\* line 83-86: while len(stack) and precedence[el] <= precedence[stack[-1]]
RECURSIVE PopWhile(_, _, _)
PopWhile(st, pf, el) ==
    IF st = <<>> THEN [stack |-> <<el>>, postfix |-> pf, exc |-> "none"]
    ELSE IF Top(st) \notin PrecKeys THEN [stack |-> st, postfix |-> pf, exc |-> "KeyError"]
    ELSE IF precedence(el) <= precedence(Top(st)) THEN PopWhile(Pop(st), Append(pf, Top(st)), el)
    ELSE [stack |-> Append(st, el), postfix |-> pf, exc |-> "none"]

\* one iteration of the loop of line 63
PostfixStep(st, pf, el) ==
    IF isdigit(el) \/ isalpha(el) THEN [stack |-> st, postfix |-> Append(pf, el), exc |-> "none"]
    ELSE IF el = <<"(">> THEN [stack |-> Append(st, el), postfix |-> pf, exc |-> "none"]
    ELSE IF el = <<")">> THEN CloseParen(st, pf)
    ELSE IF st = <<>> \/ Top(st) = <<"(">> THEN [stack |-> Append(st, el), postfix |-> pf, exc |-> "none"]
    ELSE IF el \notin PrecKeys \/ Top(st) \notin PrecKeys THEN [stack |-> st, postfix |-> pf, exc |-> "KeyError"]
    ELSE IF precedence(el) > precedence(Top(st)) THEN [stack |-> Append(st, el), postfix |-> pf, exc |-> "none"]
    ELSE PopWhile(st, pf, el)

\* line 88-89: pop all the stack values and append the postfix with them
RECURSIVE Flush(_, _)
Flush(st, pf) == IF st = <<>> THEN pf ELSE Flush(Pop(st), Append(pf, Top(st)))

RECURSIVE to_postfix_from(_, _, _)
to_postfix_from(infix, st, pf) ==
    IF infix = <<>> THEN [postfix |-> Flush(st, pf), exc |-> "none"]
    ELSE LET r == PostfixStep(st, pf, Head(infix))
         IN  IF r.exc # "none" THEN [postfix |-> r.postfix, exc |-> r.exc]
             ELSE to_postfix_from(Tail(infix), r.stack, r.postfix)

to_postfix(infix) == to_postfix_from(infix, <<>>, <<>>)

(***************************************************************************)
(* Python numbers, as far as eval(f"{a} {el} {b}") and int() need them.    *)
(***************************************************************************)
Abs(n) == IF n < 0 THEN 0 - n ELSE n

RECURSIVE GCD(_, _)
GCD(a, b) == IF b = 0 THEN a ELSE GCD(b, a % b)

StrV(s) == [k |-> "str", s |-> s, n |-> 0, d |-> 1]

\* the number n / d (d # 0), in lowest terms with a positive denominator
NumV(k, n, d) ==
    LET g == GCD(Abs(n), Abs(d))
        sg == IF d < 0 THEN 0 - 1 ELSE 1
    IN  [k |-> k, s |-> <<>>, n |-> sg * (n \div g), d |-> sg * (d \div g)]

\* How a stack value reads once formatted into the source text that eval
\* parses: whether an odd number of '-' precedes it, its magnitude n / d,
\* and whether it is a float literal.
Operand(v) ==
    IF v.k = "str"
    THEN LET digits == lstrip(v.s, "-")
         IN  [neg |-> (Len(v.s) - Len(digits)) % 2 = 1, n |-> Decimal(digits, 0), d |-> 1,
              fl |-> FALSE]
    ELSE [neg |-> v.n < 0, n |-> Abs(v.n), d |-> v.d, fl |-> v.k = "float"]

Signed(o) == IF o.neg THEN 0 - o.n ELSE o.n

\* a decimal literal with a leading zero is a SyntaxError unless it is all zeros
BadLiteral(v) ==
    /\ v.k = "str"
    /\ LET digits == lstrip(v.s, "-")
       IN  Len(digits) > 1 /\ Head(digits) = "0" /\ Decimal(digits, 0) # 0

TooLarge(v) == v.k = "str" /\ (Len(lstrip(v.s, "-")) > 5 \/ Decimal(lstrip(v.s, "-"), 0) > MaxMagnitude)

\* b ^ e for b, e >= 0, cut off once it passes MaxMagnitude
RECURSIVE PowAcc(_, _, _)
PowAcc(b, e, acc) ==
    IF e = 0 \/ acc > MaxMagnitude THEN acc
    ELSE IF b <= 1 THEN b
    ELSE PowAcc(b, e - 1, acc * b)

Operators == {<<"+">>, <<"-">>, <<"*">>, <<"/">>, <<"*", "*">>}

Raise(e) == [exc |-> e, val |-> StrV(<<>>)]

\* a float holds n / d exactly when d is a power of two (and n is below 2^53)
RECURSIVE IsPowerOfTwo(_)
IsPowerOfTwo(d) == d = 1 \/ (d % 2 = 0 /\ IsPowerOfTwo(d \div 2))

Fits(v) == IF Abs(v.n) > MaxMagnitude \/ v.d > MaxMagnitude \/ ~IsPowerOfTwo(v.d)
           THEN Raise("OutOfModel")
           ELSE [exc |-> "none", val |-> v]

\* a ** b as Python parses the text: the sign in front of a is applied to the power
Power(a, b) ==
    LET e == Signed(b)
        k == IF a.fl \/ b.fl \/ e < 0 THEN "float" ELSE "int"
        sg == IF a.neg THEN 0 - 1 ELSE 1
        pn == PowAcc(a.n, Abs(e), 1)
        pd == PowAcc(a.d, Abs(e), 1)
    IN  IF b.d # 1 THEN Raise("OutOfModel")
        ELSE IF e < 0 /\ a.n = 0 THEN Raise("ZeroDivisionError")
        ELSE IF pn > MaxMagnitude \/ pd > MaxMagnitude THEN Raise("OutOfModel")
        ELSE IF e < 0 THEN Fits(NumV(k, sg * pd, pn))
        ELSE Fits(NumV(k, sg * pn, pd))

\* line 238: eval(f"{a} {el} {b}")
Eval(va, el, vb) ==
    LET a == Operand(va)
        b == Operand(vb)
        k == IF a.fl \/ b.fl THEN "float" ELSE "int"
    IN  IF el \notin Operators \/ BadLiteral(va) \/ BadLiteral(vb) THEN Raise("SyntaxError")
        ELSE IF TooLarge(va) \/ TooLarge(vb) THEN Raise("OutOfModel")
        ELSE IF el = <<"+">> THEN Fits(NumV(k, Signed(a) * b.d + Signed(b) * a.d, a.d * b.d))
        ELSE IF el = <<"-">> THEN Fits(NumV(k, Signed(a) * b.d - Signed(b) * a.d, a.d * b.d))
        ELSE IF el = <<"*">> THEN Fits(NumV(k, Signed(a) * Signed(b), a.d * b.d))
        ELSE IF el = <<"/">> THEN
            IF b.n = 0 THEN Raise("ZeroDivisionError")
            ELSE Fits(NumV("float", Signed(a) * b.d, a.d * Signed(b)))
        ELSE Power(a, b)

\* line 239: int(x)
ToInt(v) ==
    IF v.k = "str"
    THEN LET digits == lstrip(v.s, "-")
         IN  IF Len(v.s) - Len(digits) > 1 THEN [exc |-> "ValueError", val |-> 0]
             ELSE IF TooLarge(v) THEN [exc |-> "OutOfModel", val |-> 0]
             ELSE [exc |-> "none", val |-> Signed(Operand(v))]
    ELSE [exc |-> "none", val |-> (IF v.n < 0 THEN 0 - 1 ELSE 1) * (Abs(v.n) \div v.d)]

(***************************************************************************)
(* Calculator.calculate_postfix.  A loop state is [vstack, exc].           *)
(***************************************************************************)
\* one iteration of the loop of line 231
CalcStep(vs, el, store) ==
    IF isdigit(lstrip(el, "-")) THEN [vstack |-> Append(vs, StrV(el)), exc |-> "none"]
    ELSE IF isalpha(el) THEN
        IF el \notin DOMAIN store THEN [vstack |-> vs, exc |-> "KeyError"]
        ELSE [vstack |-> Append(vs, StrV(store[el])), exc |-> "none"]
    ELSE IF Len(vs) < 2 THEN [vstack |-> vs, exc |-> "IndexError"]
    ELSE LET b == Top(vs)
             a == Top(Pop(vs))
             r == Eval(a, el, b)
         IN  IF r.exc # "none" THEN [vstack |-> Pop(Pop(vs)), exc |-> r.exc]
             ELSE [vstack |-> Append(Pop(Pop(vs)), r.val), exc |-> "none"]

\* line 239: return int(stack.pop())
CalcReturn(vs) == IF vs = <<>> THEN [exc |-> "IndexError", val |-> 0] ELSE ToInt(Top(vs))

RECURSIVE calculate_from(_, _, _)
calculate_from(pf, vs, store) ==
    IF pf = <<>> THEN CalcReturn(vs)
    ELSE LET r == CalcStep(vs, Head(pf), store)
         IN  IF r.exc # "none" THEN [exc |-> r.exc, val |-> 0]
             ELSE calculate_from(Tail(pf), r.vstack, store)

calculate_postfix(pf, store) == calculate_from(pf, <<>>, store)

\* line 294-296: to_array, to_postfix and calculate_postfix in a row
Evaluate(e, store) ==
    LET p == to_postfix(to_array(e))
    IN  IF p.exc # "none" THEN [exc |-> p.exc, val |-> 0]
        ELSE calculate_postfix(p.postfix, store)

(***************************************************************************)
(* Calculator.run_calc: one action per branch of the loop body.            *)
(***************************************************************************)
Nothing == [kind |-> "none", text |-> <<>>]

\* print(x) of a str or an int
Printed(t) == [kind |-> "print", text |-> t]

\* the fixed texts: an exception's __str__, 'Bye!', the help text
Message(m) == [kind |-> m, text |-> <<>>]

is_empty(line) == Len(line) = 0

is_command(line) == Head(line) = "/"

is_variable(line) == isalpha(replace(line, " ", <<>>))

is_assignment(line) == \E i \in 1..Len(line) : line[i] = "="

\* Calculator.assign_valid: the message of the exception it raises, "none" if none
assign_valid(store, cmd_arr) ==
    IF Len(cmd_arr) # 2 THEN "Invalid assignment"
    ELSE LET identifier == cmd_arr[1]
             value == cmd_arr[2]
         IN  IF ~isalpha(identifier) THEN "Invalid identifier"
             ELSE IF isdigit(lstrip(value, "-")) THEN "none"
             ELSE IF ~isalpha(value) THEN "Invalid assignment"
             ELSE IF value \notin DOMAIN store THEN "Unknown variable"
             ELSE "none"

\* store[key] = text
SetItem(store, key, text) ==
    [x \in DOMAIN store \cup {key} |-> IF x = key THEN text ELSE store[x]]

\* assign without the lookup of line 195: the name is stored, not its value
assign_name(store, identifier, value) == SetItem(store, identifier, value)

\* Calculator.assign
assign(store, identifier, value) ==
    IF isdigit(lstrip(value, "-")) THEN SetItem(store, identifier, value)
    ELSE SetItem(store, identifier, store[value])

Running == run /\ exc = "none" /\ pc = "idle"

\* line 257-258
ReadEmpty(line) ==
    /\ Running
    /\ is_empty(line)
    /\ inp' = line
    /\ out' = Nothing
    /\ UNCHANGED <<run, variables, exc, pipeVars>>

\* line 260-261
ReadNumber(line) ==
    /\ Running
    /\ ~is_empty(line)
    /\ isdigit(lstrip(line, "-"))
    /\ inp' = line
    /\ out' = Printed(line)
    /\ UNCHANGED <<run, variables, exc, pipeVars>>

\* line 263-269
ReadVariable(line) ==
    /\ Running
    /\ ~is_empty(line)
    /\ ~isdigit(lstrip(line, "-"))
    /\ is_variable(line)
    /\ inp' = line
    /\ LET key == replace(line, " ", <<>>)
       IN  out' = IF key \in DOMAIN variables THEN Printed(variables[key])
                  ELSE Message("Unknown variable")
    /\ UNCHANGED <<run, variables, exc, pipeVars>>

\* line 271-280
ReadAssignment(line) ==
    /\ Running
    /\ ~is_empty(line)
    /\ ~isdigit(lstrip(line, "-"))
    /\ ~is_variable(line)
    /\ is_assignment(line)
    /\ inp' = line
    /\ LET cmd_arr == split(replace(line, "=", <<" ">>), <<>>, <<>>)
           e == assign_valid(variables, cmd_arr)
       IN  IF e # "none"
           THEN out' = Message(e) /\ variables' = variables
           ELSE out' = Nothing /\ variables' = assign(variables, cmd_arr[1], cmd_arr[2])
    /\ UNCHANGED <<run, exc, pipeVars>>

ExitLine == <<"/", "e", "x", "i", "t">>

HelpLine == <<"/", "h", "e", "l", "p">>

\* line 282-286, with Calculator.execute_cmd
ReadCommand(line) ==
    /\ Running
    /\ ~is_empty(line)
    /\ ~isdigit(lstrip(line, "-"))
    /\ ~is_variable(line)
    /\ ~is_assignment(line)
    /\ is_command(line)
    /\ inp' = line
    /\ IF line = ExitLine THEN out' = Message("Bye!") /\ run' = FALSE
       ELSE IF line = HelpLine THEN out' = Message("help") /\ run' = run
       ELSE out' = Message("Unknown command") /\ run' = run
    /\ UNCHANGED <<variables, exc, pipeVars>>

\* line 288-296: only ExpressionError is caught; any other exception leaves run_calc
ReadExpression(line) ==
    /\ Running
    /\ ~is_empty(line)
    /\ ~isdigit(lstrip(line, "-"))
    /\ ~is_variable(line)
    /\ ~is_assignment(line)
    /\ ~is_command(line)
    /\ inp' = line
    /\ IF check_expr(line)
       THEN out' = Message("Invalid expression") /\ exc' = exc
       ELSE LET r == Evaluate(line, variables)
            IN  /\ r.exc # "OutOfModel"
                /\ exc' = r.exc
                /\ out' = IF r.exc = "none" THEN Printed(IntStr(r.val)) ELSE Nothing
    /\ UNCHANGED <<run, variables, pipeVars>>

(***************************************************************************)
(* The lines a session reads.                                              *)
(***************************************************************************)
Idents == {<<"a">>, <<"b">>}

Minus(k) == [i \in 1..k |-> "-"]

\* integer literals with up to MaxSigns leading '-'
Literals == {Minus(k) \o d : k \in 0..MaxSigns, d \in {<<"4">>, <<"5">>}}

EqualSigns == {<<"=">>, <<" ", "=", " ">>}

AssignLine(x, eq, r) == x \o eq \o r

AssignLines ==
    {AssignLine(x, eq, r) : x \in Idents \cup {<<"a", "1">>}, eq \in EqualSigns,
                            r \in Literals \cup Idents \cup {<<"4", "b">>}}
    \cup {<<"a", " ", "=", " ", "4", " ", "=", " ", "5">>, <<"a", " ", "=">>}

RefLines == Idents \cup {<<" ", "a">>, <<"a", " ", "b">>}

CommandLines == {<<"/", "e", "x", "i", "t">>, <<"/", "h", "e", "l", "p">>, <<"/", "g", "o">>, <<"/", "a", "=", "1">>}

BinaryLine(l, op, r) == l \o <<" ", op, " ">> \o r

BinaryLines ==
    {BinaryLine(l, op, r) : l \in Idents \cup {<<"2">>}, op \in {"+", "-", "*", "/", "^"},
                            r \in {<<"2">>, <<"a">>}}

ExampleLines ==
    {<<"1", " ", "+">>,
     <<"8", " ", "*", " ", "(", "3", " ", "+", " ", "2", ")">>,
     <<"(", "1", " ", "*", " ", "2", " ", "+", " ", "3", ")">>,
     <<"1", " ", "*", " ", "*", " ", "2">>,
     <<"1", " ", "*", "*", " ", "2">>,
     <<"3", " ", "-", " ", "-", "4">>,
     <<"3", " ", "-", "-", "-", " ", "4">>,
     <<"3", " ", "-", "-", "-", "-", " ", "4">>,
     <<"2", " ", "^", " ", "2", " ", "^", " ", "3">>,
     <<"(", "1", " ", "-", " ", "6", ")", " ", "^", " ", "2">>,
     <<"(", "2">>,
     <<"1", "2", " ", "+", " ", "3", "0">>}

Lines == {<<>>} \cup Literals \cup RefLines \cup AssignLines \cup CommandLines
         \cup BinaryLines \cup ExampleLines

(***************************************************************************)
(* The session: Calculator() followed by run_calc().                       *)
(***************************************************************************)
EmptyStore == [x \in {} |-> <<>>]

Init ==
    /\ run = TRUE
    /\ variables = EmptyStore
    /\ inp = <<>>
    /\ out = Nothing
    /\ exc = "none"
    /\ pc = "idle"
    /\ expr = <<>>
    /\ arr = <<>>
    /\ todo = <<>>
    /\ stack = <<>>
    /\ postfix = <<>>
    /\ vstack = <<>>
    /\ result = 0

Next ==
    \E line \in Lines :
        \/ ReadEmpty(line)
        \/ ReadNumber(line)
        \/ ReadVariable(line)
        \/ ReadAssignment(line)
        \/ ReadCommand(line)
        \/ ReadExpression(line)

Spec == Init /\ [][Next]_vars

(***************************************************************************)
(* The expression pipeline on its own: run_calc's line 290-296 for one     *)
(* expression string, with each loop iteration of to_postfix and of        *)
(* calculate_postfix a step.                                               *)
(***************************************************************************)
Operands == {<<"2">>, <<"1", "6">>, <<"a">>}

BinaryOps == {<<"+">>, <<"-">>, <<"*">>, <<"/">>, <<"^">>}

\* Infix token sequences of the grammar  E ::= A | E op A,  A ::= operand | ( E ),
\* with exactly n operators and parentheses nested at most d deep.
RECURSIVE Exprs(_, _)
Atoms(n, d) ==
    IF n = 0 THEN {<<x>> : x \in Operands}
    ELSE IF d = 0 THEN {}
    ELSE {<<<<"(">>>> \o e \o <<<<")">>>> : e \in Exprs(n, d - 1)}

Exprs(n, d) ==
    Atoms(n, d) \cup
    UNION {{l \o <<op>> \o r : l \in Exprs(i, d), op \in BinaryOps, r \in Atoms(n - 1 - i, d)} :
           i \in 0..(n - 1)}

\* the tokens written in a row, with sep between two of them
RECURSIVE Render(_, _)
Render(tokens, sep) ==
    IF tokens = <<>> THEN <<>>
    ELSE IF Len(tokens) = 1 THEN Head(tokens)
    ELSE Head(tokens) \o sep \o Render(Tail(tokens), sep)

Spacings == {<<>>, <<" ">>}

\* the expressions with up to n operators, written with and without blanks
ValidLines(n, d) ==
    {Render(t, sep) : t \in UNION {Exprs(k, d) : k \in 0..n}, sep \in Spacings}

\* the non-blank sequences over S of up to n characters
Between(S, n) ==
    {m \in UNION {[1..k -> S \cup {" "}] : k \in 1..n} : \E i \in 1..Len(m) : m[i] # " "}

\* 3 and 4 with up to n characters out of '+', '-' and ' ' between them
SignLines(n) == {<<"3">> \o m \o <<"4">> : m \in Between({"+", "-"}, n)}

\* 1 and 2 with up to n characters out of '*', '/', '^' and ' ' between them
MulLines(n) == {<<"1">> \o m \o <<"2">> : m \in Between({"*", "/", "^"}, n)}

PipeStores == {EmptyStore, [x \in {<<"a">>} |-> <<"-", "5">>]}

InitPipe ==
    /\ run = TRUE
    /\ variables \in PipeStores
    /\ inp = <<>>
    /\ out = Nothing
    /\ exc = "none"
    /\ pc = "check_expr"
    /\ expr \in ValidLines(MaxOps, MaxDepth) \cup SignLines(MaxRun) \cup MulLines(MaxRun - 1)
    /\ arr = <<>>
    /\ todo = <<>>
    /\ stack = <<>>
    /\ postfix = <<>>
    /\ vstack = <<>>
    /\ result = 0

\* no exception has left the pipeline yet
Live == exc = "none"

\* line 289-293
CheckExpr ==
    /\ Live
    /\ pc = "check_expr"
    /\ IF check_expr(expr)
       THEN exc' = "ExpressionError" /\ pc' = pc
       ELSE exc' = exc /\ pc' = "to_array"
    /\ UNCHANGED <<sessionVars, expr, arr, todo, stack, postfix, vstack, result>>

\* line 294, and line 61-62 of to_postfix
ToArray ==
    /\ Live
    /\ pc = "to_array"
    /\ arr' = to_array(expr)
    /\ todo' = arr'
    /\ stack' = <<>>
    /\ postfix' = <<>>
    /\ pc' = "to_postfix"
    /\ UNCHANGED <<sessionVars, exc, expr, vstack, result>>

\* line 63-86: one iteration; an exception leaves pc and todo where it was raised
ToPostfixLoop ==
    /\ Live
    /\ pc = "to_postfix"
    /\ todo # <<>>
    /\ LET r == PostfixStep(stack, postfix, Head(todo))
       IN  /\ stack' = r.stack
           /\ postfix' = r.postfix
           /\ exc' = r.exc
           /\ todo' = IF r.exc # "none" THEN todo ELSE Tail(todo)
    /\ UNCHANGED <<sessionVars, pc, expr, arr, vstack, result>>

\* line 88-90, and line 230 of calculate_postfix
ToPostfixReturn ==
    /\ Live
    /\ pc = "to_postfix"
    /\ todo = <<>>
    /\ postfix' = Flush(stack, postfix)
    /\ stack' = <<>>
    /\ todo' = postfix'
    /\ vstack' = <<>>
    /\ pc' = "calculate_postfix"
    /\ UNCHANGED <<sessionVars, exc, expr, arr, result>>

\* line 231-238: one iteration; an exception leaves pc and todo where it was raised
CalcLoop ==
    /\ Live
    /\ pc = "calculate_postfix"
    /\ todo # <<>>
    /\ LET r == CalcStep(vstack, Head(todo), variables)
       IN  /\ r.exc # "OutOfModel"
           /\ vstack' = r.vstack
           /\ exc' = r.exc
           /\ todo' = IF r.exc # "none" THEN todo ELSE Tail(todo)
    /\ UNCHANGED <<sessionVars, pc, expr, arr, stack, postfix, result>>

\* line 239
CalcExit ==
    /\ Live
    /\ pc = "calculate_postfix"
    /\ todo = <<>>
    /\ LET r == CalcReturn(vstack)
       IN  /\ r.exc # "OutOfModel"
           /\ exc' = r.exc
           /\ result' = r.val
           /\ pc' = IF r.exc # "none" THEN pc ELSE "done"
    /\ UNCHANGED <<sessionVars, expr, arr, todo, stack, postfix, vstack>>

NextPipe ==
    \/ CheckExpr
    \/ ToArray
    \/ ToPostfixLoop
    \/ ToPostfixReturn
    \/ CalcLoop
    \/ CalcExit

SpecPipe == InitPipe /\ [][NextPipe]_vars

(***************************************************************************)
(* Properties of the session (Spec).                                       *)
(***************************************************************************)
\* C1: no line other than /exit ends the session: whatever a line raises is
\* caught while that line is processed, and the loop goes on with run still True.
C1_OnlyExitEndsSession == inp # ExitLine => (run /\ exc = "none")

\* C2: a reference to a name the store does not hold gives "Unknown variable"
\* in each place a reference can stand: a bare line, the right-hand side of an
\* assignment, an operand of an expression.
C2_UnknownVariableEverywhere ==
    \A y \in Idents :
        y \notin DOMAIN variables =>
            /\ inp = y => out = Message("Unknown variable")
            /\ \A x \in Idents, eq \in EqualSigns :
                   inp = AssignLine(x, eq, y) => out = Message("Unknown variable")
            /\ \A op \in {"+", "-", "*", "/", "^"} :
                   inp = BinaryLine(y, op, <<"2">>) =>
                       exc = "none" /\ out = Message("Unknown variable")

\* the step read an assignment to x and printed nothing: a successful assignment
AssignedTo(x) ==
    \E eq \in EqualSigns, r \in Literals \cup Idents : inp' = AssignLine(x, eq, r) /\ out' = Nothing

\* C7: a successful assignment x = v binds x to the text v, and x = y binds x to
\* the text y holds at that moment; a bare reference to x prints x's binding; and
\* no step other than a successful assignment to x changes x's binding.
C7_BindingLastsUntilReassigned ==
    [][\A x \in Idents :
          /\ \A eq \in EqualSigns, v \in Literals :
                 (inp' = AssignLine(x, eq, v) /\ out' = Nothing) =>
                     x \in DOMAIN variables' /\ variables'[x] = v
          /\ \A eq \in EqualSigns, y \in Idents :
                 (inp' = AssignLine(x, eq, y) /\ out' = Nothing) =>
                     /\ y \in DOMAIN variables
                     /\ x \in DOMAIN variables'
                     /\ variables'[x] = variables[y]
          /\ (inp' = x /\ x \in DOMAIN variables) => out' = Printed(variables[x])
          /\ (x \in DOMAIN variables /\ ~AssignedTo(x)) =>
                 x \in DOMAIN variables' /\ variables'[x] = variables[x]
      ]_vars

\* C7's case: b was bound to a's value, a was bound anew, and the line b printed
\* what b was given
C7_Witness ==
    /\ inp = <<"b">>
    /\ out = Printed(<<"4">>)
    /\ DOMAIN variables = Idents
    /\ variables[<<"a">>] = <<"5">>
    /\ variables[<<"b">>] = <<"4">>

\* C8: every line that starts with '/' goes to execute_cmd: /exit ends the
\* session, /help prints the help text, any other such line prints "Unknown
\* command"; none of them changes the store.
C8_SlashLinesAreCommands ==
    [][(inp' # <<>> /\ Head(inp') = "/") =>
          /\ variables' = variables
          /\ exc' = "none"
          /\ IF inp' = ExitLine THEN out' = Message("Bye!") /\ ~run'
             ELSE IF inp' = HelpLine THEN out' = Message("help") /\ run'
             ELSE out' = Message("Unknown command") /\ run'
      ]_vars

(***************************************************************************)
(* The infix expression evaluated directly, for comparison: precedence ^   *)
(* above * / above + -, operators of one level grouped left to right,      *)
(* exact arithmetic.  A value is [ok, n, d, i]: the number n / d and the   *)
(* index of the next token; ok is FALSE where the tokens are no expression *)
(* or the value leaves the range of the model.                             *)
(***************************************************************************)
\* the tokens as written: runs of letters and digits, and single other characters
RECURSIVE WordEnd(_, _)
WordEnd(e, i) ==
    IF i < Len(e) /\ e[i + 1] \in Letters \cup Digits THEN WordEnd(e, i + 1) ELSE i

RECURSIVE Lex(_, _, _)
Lex(e, i, acc) ==
    IF i > Len(e) THEN acc
    ELSE IF e[i] = " " THEN Lex(e, i + 1, acc)
    ELSE IF e[i] \in Letters \cup Digits
         THEN Lex(e, WordEnd(e, i) + 1, Append(acc, SubSeq(e, i, WordEnd(e, i))))
    ELSE Lex(e, i + 1, Append(acc, <<e[i]>>))

NoValue(i) == [ok |-> FALSE, n |-> 0, d |-> 1, i |-> i]

Value(n, d, i) ==
    LET g == GCD(Abs(n), Abs(d))
    IN  IF d = 0 \/ Abs(n) \div g > MaxMagnitude \/ Abs(d) \div g > MaxMagnitude THEN NoValue(i)
        ELSE [ok |-> TRUE, n |-> (IF d < 0 THEN 0 - 1 ELSE 1) * (n \div g), d |-> Abs(d) \div g,
              i |-> i]

\* x ^ y for an integer y, the sign of x raised with it
RefPower(x, y, i) ==
    LET e == Abs(y.n)
        sg == IF x.n < 0 /\ e % 2 = 1 THEN 0 - 1 ELSE 1
        pn == PowAcc(Abs(x.n), e, 1)
        pd == PowAcc(x.d, e, 1)
    IN  IF y.d # 1 \/ pn > MaxMagnitude \/ pd > MaxMagnitude THEN NoValue(i)
        ELSE IF y.n < 0 THEN Value(sg * pd, pn, i)
        ELSE Value(sg * pn, pd, i)

RefApply(op, x, y, i) ==
    IF op = <<"+">> THEN Value(x.n * y.d + y.n * x.d, x.d * y.d, i)
    ELSE IF op = <<"-">> THEN Value(x.n * y.d - y.n * x.d, x.d * y.d, i)
    ELSE IF op = <<"*">> THEN Value(x.n * y.n, x.d * y.d, i)
    ELSE IF op = <<"/">> THEN Value(x.n * y.d, x.d * y.n, i)
    ELSE RefPower(x, y, i)

RefOps(level) ==
    IF level = 1 THEN {<<"+">>, <<"-">>}
    ELSE IF level = 2 THEN {<<"*">>, <<"/">>}
    ELSE {<<"^">>}

\* level 1: sums, level 2: products, level 3: powers, level 4: operands and groups
RECURSIVE RefLevel(_, _, _, _)
RECURSIVE RefRest(_, _, _, _)
RefLevel(level, t, i, store) ==
    IF level < 4 THEN RefRest(level, t, RefLevel(level + 1, t, i, store), store)
    ELSE IF i > Len(t) THEN NoValue(i)
    ELSE IF t[i] = <<"(">> THEN
        LET r == RefLevel(1, t, i + 1, store)
        IN  IF r.ok /\ r.i <= Len(t) /\ t[r.i] = <<")">> THEN [r EXCEPT !.i = r.i + 1]
            ELSE NoValue(i)
    ELSE IF isdigit(t[i]) THEN Value(Decimal(t[i], 0), 1, i + 1)
    ELSE IF isalpha(t[i]) /\ t[i] \in DOMAIN store
         THEN Value(Signed(Operand(StrV(store[t[i]]))), 1, i + 1)
    ELSE NoValue(i)

RefRest(level, t, acc, store) ==
    IF ~acc.ok \/ acc.i > Len(t) \/ t[acc.i] \notin RefOps(level) THEN acc
    ELSE LET rhs == RefLevel(level + 1, t, acc.i + 1, store)
         IN  IF ~rhs.ok THEN rhs
             ELSE RefRest(level, t, RefApply(t[acc.i], acc, rhs, rhs.i), store)

\* the whole line as one expression; its value as int() gives it
Direct(e, store) ==
    LET t == Lex(e, 1, <<>>)
        r == RefLevel(1, t, 1, store)
    IN  [ok |-> r.ok /\ r.i = Len(t) + 1,
         val |-> (IF r.n < 0 THEN 0 - 1 ELSE 1) * (Abs(r.n) \div r.d)]

(***************************************************************************)
(* Properties of the pipeline (SpecPipe).                                  *)
(***************************************************************************)
Finished == pc = "done" /\ exc = "none"

\* C3: for a grammatically valid infix expression over integer literals and
\* defined variables, to_array, to_postfix and calculate_postfix raise nothing
\* and return the value of the expression evaluated directly.
C3_PostfixAgreesWithInfix ==
    Direct(expr, variables).ok =>
        /\ exc = "none"
        /\ Finished => result = Direct(expr, variables).val

\* two of '*', '/', '^' with nothing but blanks between them
RepeatedMul(e) ==
    \E i, j \in 1..Len(e) :
        /\ i < j
        /\ e[i] \in MulChars
        /\ e[j] \in MulChars
        /\ \A k \in (i + 1)..(j - 1) : e[k] = " "

\* C4: a line in which two of '*', '/', '^' follow one another, adjacent or with
\* blanks between them, raises ExpressionError in check_expr and goes no further.
C4_RepeatedMulIsRejected ==
    RepeatedMul(expr) => pc = "check_expr" /\ exc \in {"none", "ExpressionError"}

\* a digit, then '+', '-' and blanks with a sign among them, then a digit
SignRunLine(e) ==
    /\ Len(e) >= 3
    /\ e[1] \in Digits
    /\ e[Len(e)] \in Digits
    /\ \A i \in 2..(Len(e) - 1) : e[i] \in {"+", "-", " "}
    /\ \E i \in 2..(Len(e) - 1) : e[i] # " "

\* C5: a run of '+' and '-' between two operands, with or without blanks in it,
\* acts as '-' when it holds an odd number of '-' and as '+' otherwise.
C5_SignRunIsOneOperator ==
    SignRunLine(expr) =>
        /\ exc = "none"
        /\ Finished =>
               LET x == DigitVal(expr[1])
                   y == DigitVal(expr[Len(expr)])
               IN  result = IF count(expr, "-") % 2 = 1 THEN x - y ELSE x + y

PositiveLiterals == {<<"2">>, <<"1", "6">>}

Caret == <<"^">>

\* C6: x ^ y ^ z is (x ^ y) ^ z, and ^ binds tighter than a lower operator
\* beside it: x + y ^ z is x + (y ^ z) and y ^ z + x is (y ^ z) + x.
C6_PowerIsLeftAssociative ==
    \A x, y, z \in PositiveLiterals, sep \in Spacings :
        LET X == Decimal(x, 0)
            Y == Decimal(y, 0)
            Z == Decimal(z, 0)
            YZ == PowAcc(Y, Z, 1)
            XYZ == PowAcc(PowAcc(X, Y, 1), Z, 1)
        IN  /\ (expr = Render(<<x, Caret, y, Caret, z>>, sep) /\ XYZ <= MaxMagnitude) =>
                   exc = "none" /\ (Finished => result = XYZ)
            /\ (expr = Render(<<x, <<"+">>, y, Caret, z>>, sep) /\ YZ <= MaxMagnitude) =>
                   exc = "none" /\ (Finished => result = X + YZ)
            /\ (expr = Render(<<y, Caret, z, <<"+">>, x>>, sep) /\ YZ <= MaxMagnitude) =>
                   exc = "none" /\ (Finished => result = YZ + X)

\* every ( has its ) after it and every ) its ( before it
RECURSIVE Nested(_, _)
Nested(t, open) ==
    IF t = <<>> THEN open = 0
    ELSE IF Head(t) = <<"(">> THEN Nested(Tail(t), open + 1)
    ELSE IF Head(t) = <<")">> THEN open > 0 /\ Nested(Tail(t), open - 1)
    ELSE Nested(Tail(t), open)

\* the tokens to_postfix has consumed
Consumed == SubSeq(arr, 1, Len(arr) - Len(todo))

\* C9: in to_postfix a ( leaves the stack only at its matching ): for tokens with
\* properly nested parentheses the stack holds exactly the ( not closed yet,
\* every ) finds its ( on the stack, and no ( or ) reaches the output.
C9_ParenLeavesOnlyAtItsClose ==
    (pc \in {"to_postfix", "calculate_postfix", "done"} /\ Nested(arr, 0)) =>
        /\ \A i \in 1..Len(postfix) : postfix[i] \notin {<<"(">>, <<")">>}
        /\ pc = "to_postfix" => exc # "IndexError"
        /\ (pc = "to_postfix" /\ exc = "none") =>
               count(stack, <<"(">>) = count(Consumed, <<"(">>) - count(Consumed, <<")">>)

IsInt(v) == v.k \in {"str", "int"}

\* a <op> b on integers, for + - * and ** with b >= 0
IntOp(el, a, b) ==
    IF el = <<"+">> THEN a + b
    ELSE IF el = <<"-">> THEN a - b
    ELSE IF el = <<"*">> THEN a * b
    ELSE (IF a < 0 /\ b % 2 = 1 THEN 0 - 1 ELSE 1) * PowAcc(Abs(a), b, 1)

\* C10: at an operator token calculate_postfix pops b, then a, and pushes the
\* integer a <op> b of their integer values, for a negative a as for any other.
\* (Division is left aside: eval gives it a float.)
C10_OperatorPushesIntegerResult ==
    [][(/\ pc = "calculate_postfix"
        /\ exc = "none"
        /\ exc' = "none"
        /\ todo # <<>>
        /\ Head(todo) \in {<<"+">>, <<"-">>, <<"*">>, <<"*", "*">>}
        /\ Len(vstack) >= 2
        /\ IsInt(Top(vstack))
        /\ IsInt(Top(Pop(vstack)))
        /\ Signed(Operand(Top(vstack))) >= 0)
       =>
       LET b == Signed(Operand(Top(vstack)))
           a == Signed(Operand(Top(Pop(vstack))))
       IN  /\ Len(vstack') = Len(vstack) - 1
           /\ Top(vstack') = NumV("int", IntOp(Head(todo), a, b), 1)
      ]_vars

====
